---- MODULE Spec2Model ----
(***************************************************************************)
(* Model of PersonCounter::detectHeads (src/src/person_counter.cpp), its   *)
(* helper getTgtRect, the shared Inference instance it drives, the CLI     *)
(* caller (src/unnamed/part_000, main) and the request aggregator the      *)
(* specification describes around it.                                      *)
(*                                                                         *)
(* Floats are modelled as integers: thresholds in tenths (0.2 -> 2),       *)
(* confidences in hundredths.  A JPEG buffer is modelled as a byte         *)
(* sequence whose two bytes are the width and the height of the picture;   *)
(* any other buffer does not decode.                                       *)
(***************************************************************************)
EXTENDS Integers, Sequences, FiniteSets, TLC

\* ------------------------------------------------------------------ bounds
MaxDim == 2      \* images are w x h with w, h in 1..MaxDim
MaxVerts == 2    \* a polygon has at most MaxVerts vertices
MaxDet == 2      \* the detector returns at most MaxDet detections
MaxAreas == 2    \* a request names at most MaxAreas areas

\* ------------------------------------------------------- program constants
DefaultThr == 2  \* Thresholds(float conf = 0.2, score = 0.2, nms = 0.2)

Proc == {1, 2}
Caller == 1

\* -------------------------------------------------------------- data types
\* struct Thresholds
MkThresholds(conf, score, nms) ==
    [confidenceThreshold |-> conf, scoreThreshold |-> score, nmsThreshold |-> nms]

\* struct OBJPos
OBJPos(x, y) == [x |-> x, y |-> y]

\* cv::Rect
CvRect(x, y, w, h) == [x |-> x, y |-> y, width |-> w, height |-> h]

\* struct Rect (a head rectangle with its confidence)
Rect(x, y, w, h, c) == [x |-> x, y |-> y, width |-> w, height |-> h, confidence |-> c]

\* struct Detection: the fields detectHeads reads
Detection(box, c) == [box |-> box, confidence |-> c]

\* cv::Mat: only its size matters to detectHeads
Mat(cols, rows) == [cols |-> cols, rows |-> rows]
EmptyMat == Mat(0, 0)
MatEmpty(m) == m.cols = 0 \/ m.rows = 0

\* ------------------------------------------------------------- input sets
Coord == (0 - 1)..(MaxDim + 1)
Vertex == {OBJPos(x, y) : x \in Coord, y \in Coord}
VertexSeqs == UNION {[1..n -> Vertex] : n \in 0..MaxVerts}
\* detectHeads reads the polygon through getTgtRect alone, and every rectangle
\* getTgtRect yields is the rectangle of no, one or two vertices (two opposite
\* corners): the calls of detectHeads are drawn from these.
CornerPolygons ==
    {<<>>} \cup {<<a>> : a \in Vertex} \cup {<<a, b>> : a \in Vertex, b \in Vertex}

\* the default thresholds of the CLI run and the thresholds of the README request
ThresholdSets == {MkThresholds(DefaultThr, DefaultThr, DefaultThr), MkThresholds(5, 5, 4)}

JpegOf(w, h) == <<w, h>>
ImageSizes == {<<w, h>> : w \in 1..MaxDim, h \in 1..MaxDim}
JpegInputs == {<<>>} \cup {JpegOf(s[1], s[2]) : s \in ImageSizes}

DetBoxes == {Detection(CvRect(0, 0, 1, 1), 95), Detection(CvRect(1, 0, 1, 2), 87)}
DetOutputs == UNION {[1..n -> DetBoxes] : n \in 0..MaxDet}
\* what one runInference call does: fail, or return dets
Oracles == {[fail |-> TRUE, dets |-> <<>>]} \cup {[fail |-> FALSE, dets |-> d] : d \in DetOutputs}
\* the three kinds of outcome a caller of detectHeads can tell apart: a
\* failure, no head, some heads
OutcomeKinds ==
    {[fail |-> TRUE, dets |-> <<>>], [fail |-> FALSE, dets |-> <<>>],
     [fail |-> FALSE, dets |-> <<Detection(CvRect(0, 0, 1, 1), 95),
                                 Detection(CvRect(1, 0, 1, 2), 87)>>]}

\* ----------------------------------------------------------- the outcomes
NoRet == [kind |-> "none", value |-> <<>>, error |-> ""]
Return(v) == [kind |-> "return", value |-> v, error |-> ""]
Throw(e) == [kind |-> "throw", value |-> <<>>, error |-> e]

\* ------------------------------------------------------------ pure pieces
\* cv::imdecode: an empty Mat when the buffer is no picture
imdecode(buf) ==
    IF Len(buf) = 2 /\ buf[1] >= 1 /\ buf[2] >= 1 THEN Mat(buf[1], buf[2]) ELSE EmptyMat

RECURSIVE Reduce(_, _, _)
Reduce(vertices, i, acc) ==
    IF i > Len(vertices) THEN acc
    ELSE LET p == vertices[i]
         IN  Reduce(vertices, i + 1,
                    [ltx |-> IF acc.ltx > p.x THEN p.x ELSE acc.ltx,
                     lty |-> IF acc.lty > p.y THEN p.y ELSE acc.lty,
                     rbx |-> IF acc.rbx < p.x THEN p.x ELSE acc.rbx,
                     rby |-> IF acc.rby < p.y THEN p.y ELSE acc.rby])

\* a plausible slip: the size fields get the right-bottom corner
getTgtRectCorner(vertices, cam_width, cam_height) ==
    LET acc == Reduce(vertices, 1,
                      [ltx |-> cam_width, lty |-> cam_height, rbx |-> 0, rby |-> 0])
    IN  CvRect(acc.ltx, acc.lty, acc.rbx, acc.rby)

getTgtRect(vertices, cam_width, cam_height) ==
    LET acc == Reduce(vertices, 1,
                      [ltx |-> cam_width, lty |-> cam_height, rbx |-> 0, rby |-> 0])
    IN  CvRect(acc.ltx, acc.lty, acc.rbx - acc.ltx, acc.rby - acc.lty)

\* a plausible slip: a negative size is not rejected
MatRoiLoose(img, roi) ==
    /\ 0 <= roi.x /\ roi.x + roi.width <= img.cols
    /\ 0 <= roi.y /\ roi.y + roi.height <= img.rows

\* cv::Mat::operator()(const Rect&): the range check of the region of interest
MatRoiOk(img, roi) ==
    /\ 0 <= roi.x /\ 0 <= roi.width /\ roi.x + roi.width <= img.cols
    /\ 0 <= roi.y /\ 0 <= roi.height /\ roi.y + roi.height <= img.rows

\* a plausible slip: the crop offset is forgotten
TranslateNoOffset(d, tgtRect) ==
    Rect(d.box.x, d.box.y, d.box.width, d.box.height, d.confidence)

\* the body of the result loop of detectHeads
Translate(d, tgtRect) ==
    Rect(d.box.x + tgtRect.x, d.box.y + tgtRect.y, d.box.width, d.box.height, d.confidence)

\* ---------------------------------------------------- detectHeads, by step
\* The locals of one call of detectHeads.  jpegData, vertices and thresholds
\* are the reference parameters; steps lists the statements executed so far.
IdleFrame ==
    [pc |-> "idle", jpegData |-> <<>>, vertices |-> <<>>,
     thresholds |-> MkThresholds(DefaultThr, DefaultThr, DefaultThr),
     img |-> EmptyMat, tgtRect |-> CvRect(0, 0, 0, 0), src |-> EmptyMat,
     output |-> <<>>, ret |-> NoRet, steps |-> <<>>]

Enter(jpegData, vertices, thresholds) ==
    [IdleFrame EXCEPT !.pc = "decode", !.jpegData = jpegData,
                      !.vertices = vertices, !.thresholds = thresholds]

\* An entry of the log of calls made on the shared Inference object: thr is
\* the thresholds the object holds when the call has taken effect.
InfCall(p, op, thr, img) == [caller |-> p, op |-> op, thr |-> thr, img |-> img]

\* a plausible slip: the early return on a failed decode is missing
DecodeNoAbort(w) ==
    [w EXCEPT !.f.img = imdecode(w.f.jpegData), !.f.pc = "rect",
              !.f.steps = Append(@, "imdecode")]

DecodeStep(w) ==
    LET img == imdecode(w.f.jpegData)
    IN  IF MatEmpty(img)
        THEN [w EXCEPT !.f.img = img, !.f.pc = "done", !.f.ret = Return(<<>>),
                       !.f.steps = Append(@, "imdecode")]
        ELSE [w EXCEPT !.f.img = img, !.f.pc = "rect",
                       !.f.steps = Append(@, "imdecode")]

RectStep(w) ==
    [w EXCEPT !.f.tgtRect = getTgtRect(w.f.vertices, w.f.img.cols, w.f.img.rows),
              !.f.pc = "crop", !.f.steps = Append(@, "getTgtRect")]

CropStep(w) ==
    IF MatRoiOk(w.f.img, w.f.tgtRect)
    THEN [w EXCEPT !.f.src = Mat(w.f.tgtRect.width, w.f.tgtRect.height),
                   !.f.pc = "setThresholds", !.f.steps = Append(@, "crop")]
    ELSE [w EXCEPT !.f.pc = "done", !.f.ret = Throw("cv::Exception")]

\* a plausible slip: the thresholds are not handed to the detector
SetThresholdsSkipped(w, p) ==
    [w EXCEPT !.f.pc = "runInference"]

SetThresholdsStep(w, p) ==
    [w EXCEPT !.inf = w.f.thresholds,
              !.log = Append(@, InfCall(p, "setThresholds", w.f.thresholds, EmptyMat)),
              !.f.pc = "runInference", !.f.steps = Append(@, "setThresholds")]

\* Inference::runInference
runInference(src, oracle) ==
    IF MatEmpty(src) THEN Throw("EmptyRegion")
    ELSE IF oracle.fail THEN Throw("DetectorFailure")
    ELSE Return(oracle.dets)

RunInferenceStep(w, p, oracle) ==
    LET r == runInference(w.f.src, oracle)
        logged == [w EXCEPT !.log = Append(@, InfCall(p, "runInference", w.inf, w.f.src)),
                            !.f.steps = Append(@, "runInference")]
    IN  IF r.kind = "throw"
        THEN [logged EXCEPT !.f.pc = "done", !.f.ret = r]
        ELSE [logged EXCEPT !.f.pc = "translate", !.f.output = r.value]

TranslateStep(w) ==
    [w EXCEPT !.f.pc = "done",
              !.f.ret = Return([i \in 1..Len(w.f.output) |->
                                   Translate(w.f.output[i], w.f.tgtRect)])]

StepOf(w, p, oracle) ==
    CASE w.f.pc = "decode" -> DecodeStep(w)
      [] w.f.pc = "rect" -> RectStep(w)
      [] w.f.pc = "crop" -> CropStep(w)
      [] w.f.pc = "setThresholds" -> SetThresholdsStep(w, p)
      [] w.f.pc = "runInference" -> RunInferenceStep(w, p, oracle)
      [] w.f.pc = "translate" -> TranslateStep(w)
      [] OTHER -> w

\* one whole call of detectHeads, run without interruption
RECURSIVE RunToEnd(_, _, _)
RunToEnd(w, p, oracle) ==
    IF w.f.pc \in {"idle", "done"} THEN w ELSE RunToEnd(StepOf(w, p, oracle), p, oracle)

\* the statements of detectHeads before the detector runs: they draw nothing
\* from the detector
NoOracle == [fail |-> FALSE, dets |-> <<>>]

RECURSIVE RunToDetector(_, _)
RunToDetector(w, p) ==
    IF w.f.pc \in {"idle", "done", "runInference"} THEN w
    ELSE RunToDetector(StepOf(w, p, NoOracle), p)

\* what the detector may do in a call that has come to w
OraclesAt(w) == IF w.f.pc = "runInference" THEN Oracles ELSE {NoOracle}
OutcomeKindsAt(w) == IF w.f.pc = "runInference" THEN OutcomeKinds ELSE {NoOracle}

StartWorld(jpegData, vertices, thresholds, inf0) ==
    [f |-> Enter(jpegData, vertices, thresholds), inf |-> inf0, log |-> <<>>]

\* ------------------------------------------------------------------ state
VARIABLES
    inf,        \* the thresholds the shared Inference object holds
    infCalls,   \* the calls made on it, in order (those of the calls in progress
                \* and of each caller's last call)
    call,       \* call[p]: the locals of caller p's call of detectHeads
    given,      \* given[p]: the arguments as caller p passed them
    infBefore,  \* infBefore[p]: inf when caller p's call started
    req,        \* the request the aggregator is serving
    resp,       \* the response it is building
    phase,      \* the aggregator's position: "idle", "areas" or "responded"
    areaIdx,    \* the area it processes next
    areaOut,    \* areaOut[i]: what the detector did for area i
    geo         \* one application of getTgtRect: its arguments and its result

callVars == <<call, given, infBefore>>
serverVars == <<req, resp, phase, areaIdx, areaOut>>
vars == <<inf, infCalls, call, given, infBefore, req, resp, phase, areaIdx, areaOut, geo>>

NoGeo == [vertices |-> <<>>, cam_width |-> 1, cam_height |-> 1,
          tgtrect |-> CvRect(0, 0, 0, 0), applied |-> FALSE]

NoReq == [jpegData |-> <<>>, areas |-> <<>>,
          thresholds |-> MkThresholds(DefaultThr, DefaultThr, DefaultThr)]
NoResp == [error |-> "", areas |-> <<>>]

NoArgs == [jpegData |-> <<>>, vertices |-> <<>>,
           thresholds |-> MkThresholds(DefaultThr, DefaultThr, DefaultThr)]
Args(j, v, t) == [jpegData |-> j, vertices |-> v, thresholds |-> t]

InitCounter ==
    /\ inf \in ThresholdSets
    /\ infCalls = <<>>
    /\ call = [p \in Proc |-> IdleFrame]
    /\ given = [p \in Proc |-> NoArgs]
    /\ infBefore = [p \in Proc |-> inf]
    /\ req = NoReq
    /\ resp = NoResp
    /\ phase = "idle"
    /\ areaIdx = 1
    /\ areaOut = <<>>

Init == InitCounter /\ geo = NoGeo

\* One call of detectHeads by the single caller, start to end.
DetectHeads ==
    /\ call[Caller].pc = "idle"
    /\ \E j \in JpegInputs, v \in CornerPolygons, t \in ThresholdSets :
        LET w0 == RunToDetector(StartWorld(j, v, t, inf), Caller)
        IN  \E o \in OraclesAt(w0) :
            LET w == RunToEnd(w0, Caller, o)
            IN  /\ inf' = w.inf
                /\ infCalls' = w.log
                /\ call' = [call EXCEPT ![Caller] = w.f]
                /\ given' = [given EXCEPT ![Caller] = Args(j, v, t)]
                /\ infBefore' = [infBefore EXCEPT ![Caller] = inf]
                /\ UNCHANGED <<serverVars, geo>>

\* The caller has taken the result: the locals of the call are gone.
TakeResult ==
    /\ call[Caller].pc = "done"
    /\ call' = [call EXCEPT ![Caller] = IdleFrame]
    /\ given' = [given EXCEPT ![Caller] = NoArgs]
    /\ infBefore' = [infBefore EXCEPT ![Caller] = inf]
    /\ infCalls' = <<>>
    /\ UNCHANGED <<inf, serverVars, geo>>

Next == DetectHeads \/ TakeResult

Spec == Init /\ [][Next]_vars

\* ------------------------------------ two callers on one PersonCounter
\* The vertices main passes: the corners of the whole picture.
MainVertices(width, height) ==
    <<OBJPos(0, 0), OBJPos(width, 0), OBJPos(width, height), OBJPos(0, height)>>

NotOf(p, log) ==
    LET Other(e) == e.caller # p IN SelectSeq(log, Other)

\* Caller p enters detectHeads, whatever the other caller is doing: the class
\* holds no lock (person_counter.h declares none, detectHeads takes none).
CallConc(p) ==
    /\ call[p].pc = "idle"
    /\ \E j \in JpegInputs, t \in ThresholdSets :
        LET img == imdecode(j)
        IN  /\ call' = [call EXCEPT ![p] = Enter(j, MainVertices(img.cols, img.rows), t)]
            /\ given' = [given EXCEPT ![p] = Args(j, MainVertices(img.cols, img.rows), t)]
            /\ infBefore' = [infBefore EXCEPT ![p] = inf]
    /\ UNCHANGED <<inf, infCalls, serverVars, geo>>

\* Caller p executes its next statement other than the detector's run.
StepConc(p) ==
    /\ call[p].pc \in {"decode", "rect", "crop", "setThresholds", "translate"}
    /\ LET w == StepOf([f |-> call[p], inf |-> inf, log |-> infCalls], p, NoOracle)
       IN  /\ call' = [call EXCEPT ![p] = w.f]
           /\ inf' = w.inf
           /\ infCalls' = w.log
    /\ UNCHANGED <<given, infBefore, serverVars, geo>>

\* Caller p's runInference.
RunConc(p) ==
    /\ call[p].pc = "runInference"
    /\ \E o \in OutcomeKinds :
        LET w == StepOf([f |-> call[p], inf |-> inf, log |-> infCalls], p, o)
        IN  /\ call' = [call EXCEPT ![p] = w.f]
            /\ inf' = w.inf
            /\ infCalls' = w.log
    /\ UNCHANGED <<given, infBefore, serverVars, geo>>

\* Caller p has taken its result.
ReturnConc(p) ==
    /\ call[p].pc = "done"
    /\ call' = [call EXCEPT ![p] = IdleFrame]
    /\ given' = [given EXCEPT ![p] = NoArgs]
    /\ infBefore' = [infBefore EXCEPT ![p] = inf]
    /\ infCalls' = NotOf(p, infCalls)
    /\ UNCHANGED <<inf, serverVars, geo>>

NextConc == \E p \in Proc : CallConc(p) \/ StepConc(p) \/ RunConc(p) \/ ReturnConc(p)

SpecConc == Init /\ [][NextConc]_vars

\* ------------------------------------------------- the request aggregator
Area(id, name, vertices) == [id |-> id, name |-> name, vertices |-> vertices]

\* The polygons a request may name on a width x height picture: none, the
\* whole picture, its right part, a single point, one beyond the right edge.
Polygons(width, height) ==
    {<<>>, MainVertices(width, height), <<OBJPos(1, 0), OBJPos(width, height)>>,
     <<OBJPos(0, 0)>>, <<OBJPos(0, 0), OBJPos(width + 1, height)>>}

AreaLists(width, height) ==
    UNION {{[i \in 1..n |-> Area(i, "area", vs[i])] : vs \in [1..n -> Polygons(width, height)]}
           : n \in 1..MaxAreas}

AreaResult(area, ret) ==
    IF ret.kind = "throw"
    THEN [id |-> area.id, name |-> area.name, count |-> 0, results |-> <<>>,
          error |-> ret.error]
    ELSE [id |-> area.id, name |-> area.name, count |-> Len(ret.value),
          results |-> ret.value, error |-> "OK"]

\* handleRequest, to its first area: the picture is decoded for the request.
Receive ==
    /\ phase = "idle"
    /\ \E j \in JpegInputs, t \in ThresholdSets :
        LET img == imdecode(j)
        IN  \E areas \in AreaLists(img.cols, img.rows) :
            /\ req' = [jpegData |-> j, areas |-> areas, thresholds |-> t]
            /\ IF MatEmpty(img)
               THEN resp' = [error |-> "DecodeFailure", areas |-> <<>>] /\ phase' = "responded"
               ELSE resp' = NoResp /\ phase' = "areas"
    /\ areaIdx' = 1
    /\ areaOut' = <<>>
    /\ UNCHANGED <<inf, infCalls, callVars, geo>>

\* processArea for the next area: detectHeads on its vertices, a failure kept
\* within the area's entry.
ProcessArea ==
    /\ phase = "areas"
    /\ areaIdx <= Len(req.areas)
    /\ LET area == req.areas[areaIdx]
           w0 == RunToDetector(StartWorld(req.jpegData, area.vertices, req.thresholds, inf),
                               Caller)
       IN  \E o \in OutcomeKindsAt(w0) :
           LET w == RunToEnd(w0, Caller, o)
           IN  /\ inf' = w.inf
               /\ infCalls' = w.log
               /\ resp' = [resp EXCEPT !.areas = Append(@, AreaResult(area, w.f.ret))]
               /\ areaOut' = Append(areaOut, o)
    /\ areaIdx' = areaIdx + 1
    /\ UNCHANGED <<req, phase, callVars, geo>>

\* Every area has its entry: the response is complete.
Respond ==
    /\ phase = "areas"
    /\ areaIdx > Len(req.areas)
    /\ resp' = [resp EXCEPT !.error = "OK"]
    /\ phase' = "responded"
    /\ UNCHANGED <<inf, infCalls, callVars, req, areaIdx, areaOut, geo>>

\* The response is sent; the request's objects are discarded.
Discard ==
    /\ phase = "responded"
    /\ req' = NoReq
    /\ resp' = NoResp
    /\ phase' = "idle"
    /\ areaIdx' = 1
    /\ areaOut' = <<>>
    /\ infCalls' = <<>>
    /\ UNCHANGED <<inf, callVars, geo>>

NextServer == Receive \/ ProcessArea \/ Respond \/ Discard

SpecServer == Init /\ [][NextServer]_vars

\* ------------------------------------------------- getTgtRect on its own
\* getTgtRect is called with the size of a decoded picture.
InitGeom ==
    /\ InitCounter
    /\ \E v \in VertexSeqs, s \in ImageSizes :
           geo = [NoGeo EXCEPT !.vertices = v, !.cam_width = s[1], !.cam_height = s[2]]

ApplyGetTgtRect ==
    /\ ~geo.applied
    /\ geo' = [geo EXCEPT !.tgtrect = getTgtRect(geo.vertices, geo.cam_width, geo.cam_height),
                          !.applied = TRUE]
    /\ UNCHANGED <<inf, infCalls, callVars, serverVars>>

NextGeom == ApplyGetTgtRect

SpecGeom == InitGeom /\ [][NextGeom]_vars

\* ------------------------------------------------- reading a finished call
Finished == call[Caller].pc = "done"
Ran(step) == \E i \in DOMAIN call[Caller].steps : call[Caller].steps[i] = step
Decodes(buf) == \E s \in ImageSizes : buf = JpegOf(s[1], s[2])
DetectorRan == \E i \in DOMAIN infCalls : infCalls[i].op = "runInference"

XS(v) == {v[i].x : i \in DOMAIN v}
YS(v) == {v[i].y : i \in DOMAIN v}
MinOf(S) == CHOOSE m \in S : \A n \in S : m <= n
MaxOf(S) == CHOOSE m \in S : \A n \in S : m >= n
InImage(v, w, h) == \A i \in DOMAIN v : 0 <= v[i].x /\ v[i].x <= w /\ 0 <= v[i].y /\ v[i].y <= h

\* C1 as stated: for every non-empty vertex sequence and every image size,
\* also with vertices outside the image, getTgtRect returns the minimal
\* axis-aligned box of the vertices.
C1_MinimalBoxAlways ==
    (geo.applied /\ geo.vertices # <<>>) =>
        LET v == geo.vertices
            r == geo.tgtrect
        IN  /\ r.x = MinOf(XS(v)) /\ r.x + r.width = MaxOf(XS(v))
            /\ r.y = MinOf(YS(v)) /\ r.y + r.height = MaxOf(YS(v))

\* C1 amended: getTgtRect returns the box of the vertices together with its
\* seeds: x = min(imageWidth, xs), y = min(imageHeight, ys), x+width =
\* max(0, xs), y+height = max(0, ys); this is the minimal box of the vertices
\* whenever every vertex lies within [0,imageWidth] x [0,imageHeight].
C1_SeededBox ==
    (geo.applied /\ geo.vertices # <<>>) =>
        LET v == geo.vertices
            r == geo.tgtrect
            w == geo.cam_width
            h == geo.cam_height
        IN  /\ r.x = MinOf(XS(v) \cup {w}) /\ r.x + r.width = MaxOf(XS(v) \cup {0})
            /\ r.y = MinOf(YS(v) \cup {h}) /\ r.y + r.height = MaxOf(YS(v) \cup {0})
            /\ InImage(v, w, h) =>
                   /\ r.x = MinOf(XS(v)) /\ r.x + r.width = MaxOf(XS(v))
                   /\ r.y = MinOf(YS(v)) /\ r.y + r.height = MaxOf(YS(v))

C1_Witness ==
    /\ geo.applied /\ Len(geo.vertices) = MaxVerts
    /\ InImage(geo.vertices, geo.cam_width, geo.cam_height)
    /\ geo.tgtrect.x > 0 /\ geo.tgtrect.width > 0 /\ geo.tgtrect.height > 0
    /\ geo.vertices[1].x > geo.vertices[2].x

\* C2: when the detector has returned its boxes for the crop rectangle
\* (x0, y0, w, h), detectHeads returns one result per box, in the detector's
\* order, the i-th being (x0+dx, y0+dy, dw, dh, conf) of the i-th box.
C2_TranslatedResults ==
    (Finished /\ DetectorRan /\ call[Caller].ret.kind = "return") =>
        LET out == call[Caller].output
            res == call[Caller].ret.value
            r == call[Caller].tgtRect
        IN  /\ call[Caller].src = Mat(r.width, r.height)
            /\ Len(res) = Len(out)
            /\ \A i \in DOMAIN out :
                   res[i] = Rect(r.x + out[i].box.x, r.y + out[i].box.y,
                                 out[i].box.width, out[i].box.height, out[i].confidence)

C2_Witness ==
    /\ Finished /\ DetectorRan /\ call[Caller].ret.kind = "return"
    /\ Len(call[Caller].output) = 2 /\ call[Caller].output[1] # call[Caller].output[2]
    /\ call[Caller].tgtRect.x > 0

\* C4 as stated: a call with no vertex on a picture that decodes fails, and
\* no rectangle is built from the accumulator seeds, nothing is cropped and
\* the detector is not touched.
C4_EmptyVerticesRejected ==
    (Finished /\ Decodes(given[Caller].jpegData) /\ given[Caller].vertices = <<>>) =>
        /\ call[Caller].ret.kind = "throw"
        /\ ~Ran("getTgtRect")
        /\ call[Caller].tgtRect # CvRect(call[Caller].img.cols, call[Caller].img.rows,
                                         0 - call[Caller].img.cols, 0 - call[Caller].img.rows)
        /\ ~Ran("crop")
        /\ infCalls = <<>>

\* C5 as stated: when the bounding rectangle has width 0 or height 0 the call
\* fails before it reaches the detector: runInference is not invoked.
C5_ZeroSizeStopsBeforeDetector ==
    (Finished /\ Ran("getTgtRect")
       /\ (call[Caller].tgtRect.width = 0 \/ call[Caller].tgtRect.height = 0)) =>
        /\ call[Caller].ret.kind = "throw"
        /\ ~DetectorRan

\* C6: when the picture does not decode, the call ends before any work on the
\* area: no rectangle, no crop, no call on the detector, and the detector
\* holds the thresholds it held before the call.
C6_DecodeFailureAborts ==
    (Finished /\ ~Decodes(given[Caller].jpegData)) =>
        /\ ~Ran("getTgtRect") /\ ~Ran("crop")
        /\ call[Caller].src = EmptyMat
        /\ infCalls = <<>>
        /\ inf = infBefore[Caller]

C6_Witness ==
    /\ Finished /\ ~Decodes(given[Caller].jpegData)
    /\ given[Caller].vertices # <<>>
    /\ given[Caller].thresholds # infBefore[Caller]

\* what detectHeads gives back when the picture is read and no head is found
ZeroHeadsOutcome ==
    RunToEnd(StartWorld(JpegOf(1, 1), <<OBJPos(0, 0), OBJPos(1, 1)>>,
                        MkThresholds(DefaultThr, DefaultThr, DefaultThr),
                        MkThresholds(DefaultThr, DefaultThr, DefaultThr)),
             Caller, NoOracle).f.ret

\* C7 as stated: a failed decode is reported as an error of the request, an
\* outcome that differs from that of a call that found no head.
C7_DecodeFailureDistinguishable ==
    (Finished /\ ~Decodes(given[Caller].jpegData)) =>
        /\ call[Caller].ret.kind = "throw"
        /\ call[Caller].ret # ZeroHeadsOutcome

\* C9 as stated: the crop is taken and the detector invoked only for a
\* rectangle within the image with positive width and height; for any other
\* rectangle the call fails without cropping.
RectInImage(r, img) ==
    /\ 0 <= r.x /\ 0 <= r.y /\ r.x + r.width <= img.cols /\ r.y + r.height <= img.rows
    /\ r.width > 0 /\ r.height > 0

C9_CropOnlyValidRect ==
    (Finished /\ Ran("getTgtRect")) =>
        /\ (Ran("crop") \/ DetectorRan) =>
               RectInImage(call[Caller].tgtRect, call[Caller].img)
        /\ ~RectInImage(call[Caller].tgtRect, call[Caller].img) =>
               call[Caller].ret.kind = "throw"

\* C10: every runInference is directly preceded, in the same call, by
\* setThresholds with that call's thresholds, so it never runs on thresholds
\* an earlier call left; and the call leaves the caller's thresholds,
\* vertices and image bytes as they were.
C10_FreshThresholds ==
    /\ \A i \in DOMAIN infCalls :
           infCalls[i].op = "runInference" =>
               /\ i > 1
               /\ infCalls[i - 1] = InfCall(infCalls[i].caller, "setThresholds",
                                            given[infCalls[i].caller].thresholds, EmptyMat)
               /\ infCalls[i].thr = given[infCalls[i].caller].thresholds
    /\ Finished =>
           /\ call[Caller].jpegData = given[Caller].jpegData
           /\ call[Caller].vertices = given[Caller].vertices
           /\ call[Caller].thresholds = given[Caller].thresholds

C10_Witness ==
    /\ Finished /\ DetectorRan
    /\ infBefore[Caller] # given[Caller].thresholds
    /\ inf = given[Caller].thresholds

\* C3 as stated: with two callers on one PersonCounter, every runInference
\* runs on the thresholds of the call that issued it.
C3_ThresholdIsolation ==
    \A i \in DOMAIN infCalls :
        infCalls[i].op = "runInference" =>
            infCalls[i].thr = given[infCalls[i].caller].thresholds

\* C8: a request over several areas is not aborted by an area that fails:
\* the failing area gets an entry with an error and count 0, every valid
\* area, before or after it, gets its detections, translated, and the
\* response carries one entry per area, in order.
ValidArea(v, img) ==
    /\ v # <<>>
    /\ InImage(v, img.cols, img.rows)
    /\ MinOf(XS(v)) < MaxOf(XS(v)) /\ MinOf(YS(v)) < MaxOf(YS(v))

====
